---- MODULE Spec2Model ----
(***************************************************************************)
(* A model of the easy-ansi `sgr!` template compiler                       *)
(* (macros/src/parse.rs): unwrap_string, parse_raw_string, parse_string,   *)
(* parse_param and the keyword, colour and escape decoders they call.      *)
(*                                                                         *)
(* A string is a sequence of characters; a character is a one-character    *)
(* TLA+ string ("a", "{", "\\"), and a character with no printable form    *)
(* has a name ("ESC", "NUL", "U+128512").  All template characters of the  *)
(* model are ASCII, so the byte offsets the Rust code slices with are      *)
(* character offsets; the model's indices are 1-based, Rust's 0-based: the *)
(* Rust index i is the model's i + 1.  An Option<(usize, char)> is the     *)
(* index of the character, 0 for None; the CharIndices iterator `chars` is *)
(* the number of characters it has yielded.                                *)
(*                                                                         *)
(* The runtime crate's SGRBuilder (src/writing.rs) is modelled next to it, *)
(* under its own specification BuilderSpec: a compile leaves the builder   *)
(* alone and the builder's calls leave the compile alone.                  *)
(***************************************************************************)
EXTENDS Integers, Sequences, FiniteSets, TLC

VARIABLES
  tmpl,    \* how the input literal was put together (history, never written)
  lit,     \* the literal token text handed to the macro, quotes included
  pc,      \* "unwrap", "string", "loop", "raw" or "done"
  s,       \* the unwrapped literal: parse_string's / parse_raw_string's `s`
  hashes,  \* the `i` of UnwrappedLiteral::RawString(s, i)
  next,    \* parse_string's `next`: index of the current character, 0 = None
  chars,   \* parse_string's `chars`: how many characters it has yielded
  buf,     \* parse_string's `buf`
  out,     \* what the compile returned
  builder, \* SGRBuilder's buffer, the Vec<u8> `self.0` (writing.rs 169)
  sink,    \* the text the writer has taken from the builder so far
  log,     \* the calls made on the builder, in order (history, never read)
  broken   \* the writer has returned an error (history, never read)

cvars == <<tmpl, lit, pc, s, hashes, next, chars, buf, out>>

vars == <<tmpl, lit, pc, s, hashes, next, chars, buf, out, builder, sink, log,
          broken>>

-----------------------------------------------------------------------------
(* Characters.                                                             *)

ESC == "ESC"

Ascii ==
  <<
     "NUL", "C01", "C02", "C03", "C04", "C05", "C06", "C07",
     "C08", "\t", "\n", "C11", "C12", "\r", "C14", "C15",
     "C16", "C17", "C18", "C19", "C20", "C21", "C22", "C23",
     "C24", "C25", "C26", "ESC", "C28", "C29", "C30", "C31",
     " ", "!", "\"", "#", "$", "%", "&", "'",
     "(", ")", "*", "+", ",", "-", ".", "/",
     "0", "1", "2", "3", "4", "5", "6", "7",
     "8", "9", ":", ";", "<", "=", ">", "?",
     "@", "A", "B", "C", "D", "E", "F", "G",
     "H", "I", "J", "K", "L", "M", "N", "O",
     "P", "Q", "R", "S", "T", "U", "V", "W",
     "X", "Y", "Z", "[", "\\", "]", "^", "_",
     "GRAVE", "a", "b", "c", "d", "e", "f", "g",
     "h", "i", "j", "k", "l", "m", "n", "o",
     "p", "q", "r", "s", "t", "u", "v", "w",
     "x", "y", "z", "{", "|", "}", "~", "DEL"
  >>

\* char::from_u32 on a value it accepts: the character with that code.
Chr(n) == IF n < 128 THEN Ascii[n + 1] ELSE "U+" \o ToString(n)

\* char::from_u32 is None for a surrogate and for a value above 0x10FFFF.
CharMax == 1114111
SurrogateLo == 55296
SurrogateHi == 57343
CharFromU32Valid(n) ==
  n >= 0 /\ n <= CharMax /\ ~(n >= SurrogateLo /\ n <= SurrogateHi)

DecDigits == <<"0", "1", "2", "3", "4", "5", "6", "7", "8", "9">>
HexLower == <<"0", "1", "2", "3", "4", "5", "6", "7", "8", "9", "a", "b", "c", "d", "e", "f">>
HexUpper == <<"0", "1", "2", "3", "4", "5", "6", "7", "8", "9", "A", "B", "C", "D", "E", "F">>

\* char::to_digit(radix): the digit's value, -1 when `c` is no digit.
ToDigit(c, radix) ==
  LET hit == {d \in 0..(radix - 1) : HexLower[d + 1] = c \/ HexUpper[d + 1] = c}
  IN IF hit = {} THEN -1 ELSE CHOOSE d \in hit : TRUE

RECURSIVE AccDigits(_, _, _, _)
\* One digit of from_str_radix's accumulation: -1 on a non-digit or on
\* overflow.
AccDigit(d, rest, radix, max, acc) ==
  IF d < 0 THEN -1
  ELSE IF acc * radix + d > max THEN -1
  ELSE AccDigits(rest, radix, max, acc * radix + d)

AccDigits(t, radix, max, acc) ==
  IF t = <<>> THEN acc
  ELSE AccDigit(ToDigit(Head(t), radix), Tail(t), radix, max, acc)

\* <unsigned>::from_str_radix(t, radix): the value, or -1 for Err.  An empty
\* string and a lone sign are errors; one leading '+' is accepted.
FromStrRadix(t, radix, max) ==
  IF t = <<>> THEN -1
  ELSE IF Len(t) = 1 /\ Head(t) \in {"+", "-"} THEN -1
  ELSE IF Head(t) = "+" THEN AccDigits(Tail(t), radix, max, 0)
  ELSE AccDigits(t, radix, max, 0)

\* u8::MAX.  The u32 the escapes parse goes to char::from_u32 at once, and
\* to the callers an overflow of the u32 and a value above CharMax are the
\* same None: the escape decoders parse with CharMax as the largest value.
U8Max == 255

-----------------------------------------------------------------------------
(* AppendToString for u8 (parse.rs 358-371).                               *)

DigitChar(d) == DecDigits[d + 1]

AppendTo(n, str) ==
  LET s1 == IF n >= 10 /\ n >= 100 THEN Append(str, DigitChar(n \div 100)) ELSE str
      n1 == IF n >= 10 /\ n >= 100 THEN n % 100 ELSE n
      s2 == IF n >= 10 THEN Append(s1, DigitChar(n1 \div 10)) ELSE s1
      n2 == IF n >= 10 THEN n1 % 10 ELSE n1
  IN Append(s2, DigitChar(n2))

-----------------------------------------------------------------------------
(* The keyword tables (parse.rs 235-285): the code, or -1 for None.        *)

parse_add_style(t) ==
  CASE t = <<"R", "e", "s", "e", "t">> -> 0
    [] t = <<"B", "o", "l", "d">> -> 1
    [] t = <<"D", "i", "m">> -> 2
    [] t = <<"I", "t", "a", "l", "i", "c">> -> 3
    [] t = <<"U", "n", "d", "e", "r", "l", "i", "n", "e">> -> 4
    [] t = <<"B", "l", "i", "n", "k", "i", "n", "g">> -> 5
    [] t = <<"I", "n", "v", "e", "r", "s", "e">> -> 7
    [] t = <<"H", "i", "d", "d", "e", "n">> -> 8
    [] t = <<"S", "t", "r", "i", "k", "e", "t", "h", "r", "o", "u", "g", "h">> -> 9
    [] OTHER -> -1

parse_sub_style(t) ==
  CASE t = <<"B", "o", "l", "d">> \/ t = <<"D", "i", "m">> -> 22
    [] t = <<"I", "t", "a", "l", "i", "c">> -> 23
    [] t = <<"U", "n", "d", "e", "r", "l", "i", "n", "e">> -> 24
    [] t = <<"B", "l", "i", "n", "k", "i", "n", "g">> -> 25
    [] t = <<"I", "n", "v", "e", "r", "s", "e">> -> 27
    [] t = <<"H", "i", "d", "d", "e", "n">> -> 28
    [] t = <<"S", "t", "r", "i", "k", "e", "t", "h", "r", "o", "u", "g", "h">> -> 29
    [] OTHER -> -1

parse_color_simple(t) ==
  CASE t = <<"B", "l", "a", "c", "k", "F", "g">> -> 30
    [] t = <<"R", "e", "d", "F", "g">> -> 31
    [] t = <<"G", "r", "e", "e", "n", "F", "g">> -> 32
    [] t = <<"Y", "e", "l", "l", "o", "w", "F", "g">> -> 33
    [] t = <<"B", "l", "u", "e", "F", "g">> -> 34
    [] t = <<"M", "a", "g", "e", "n", "t", "a", "F", "g">> -> 35
    [] t = <<"C", "y", "a", "n", "F", "g">> -> 36
    [] t = <<"W", "h", "i", "t", "e", "F", "g">> -> 37
    [] t = <<"D", "e", "f", "a", "u", "l", "t", "F", "g">> -> 39
    [] t = <<"B", "l", "a", "c", "k", "B", "g">> -> 40
    [] t = <<"R", "e", "d", "B", "g">> -> 41
    [] t = <<"G", "r", "e", "e", "n", "B", "g">> -> 42
    [] t = <<"Y", "e", "l", "l", "o", "w", "B", "g">> -> 43
    [] t = <<"B", "l", "u", "e", "B", "g">> -> 44
    [] t = <<"M", "a", "g", "e", "n", "t", "a", "B", "g">> -> 45
    [] t = <<"C", "y", "a", "n", "B", "g">> -> 46
    [] t = <<"W", "h", "i", "t", "e", "B", "g">> -> 47
    [] t = <<"D", "e", "f", "a", "u", "l", "t", "B", "g">> -> 49
    [] OTHER -> -1

-----------------------------------------------------------------------------------------------------------------------------------------------------
(* parse_color and parse_sgr (parse.rs 226-340).  A result is [ok, buf]:   *)
(* Some(()) with the buffer appended to, or None.  The buffer of a None is *)
(* never read (parse_param asserts on it), so it is left as it came.       *)

Ok(b) == [ok |-> TRUE, buf |-> b]
Fail(b) == [ok |-> FALSE, buf |-> b]

RECURSIVE Split(_, _)
\* str::split(sep): the pieces between the separators, empty pieces kept.
SplitAt(t, sep, hit) ==
  IF hit = {} THEN <<t>>
  ELSE <<SubSeq(t, 1, (CHOOSE k \in hit : \A m \in hit : k <= m) - 1)>>
         \o Split(SubSeq(t, (CHOOSE k \in hit : \A m \in hit : k <= m) + 1,
                         Len(t)), sep)
Split(t, sep) == SplitAt(t, sep, {j \in 1..Len(t) : t[j] = sep})

\* "5;" and the index (parse.rs 307-308, 323-324); n < 0 is a parse error.
color_indexed(n, b) ==
  IF n < 0 THEN Fail(b) ELSE Ok(AppendTo(n, b \o <<"5", ";">>))

\* "2;" and the three components (parse.rs 311-316, 327-332).
color_rgb(r, g, bl, b) ==
  IF r < 0 \/ g < 0 \/ bl < 0 THEN Fail(b)
  ELSE Ok(AppendTo(bl, Append(AppendTo(g, Append(AppendTo(r, b \o <<"2", ";">>), ";")), ";")))

\* parse.rs 305-319: one component or three.
color_parts(parts, b) ==
  IF \E k \in 1..Len(parts) : parts[k] < 0 THEN Fail(b)
  ELSE IF Len(parts) = 1 THEN color_indexed(parts[1], b)
  ELSE IF Len(parts) = 3 THEN color_rgb(parts[1], parts[2], parts[3], b)
  ELSE Fail(b)

\* parse.rs 300-304: every piece through u8::from_str.
ParseAll(pieces) ==
  [k \in 1..Len(pieces) |-> FromStrRadix(pieces[k], 10, U8Max)]

\* The decimal arm, '(' .. ')'.
color_decimal(inner, b) == color_parts(ParseAll(Split(inner, ",")), b)

color_hex_Decimal(inner, b) ==
  IF Len(inner) = 2 THEN color_indexed(FromStrRadix(inner, 10, U8Max), b)
  ELSE IF Len(inner) = 6
    THEN color_rgb(FromStrRadix(SubSeq(inner, 1, 2), 10, U8Max),
                   FromStrRadix(SubSeq(inner, 3, 4), 10, U8Max),
                   FromStrRadix(SubSeq(inner, 5, 6), 10, U8Max), b)
  ELSE Fail(b)

\* The hex arm, '[' .. ']' (parse.rs 321-335): two digits or six.
color_hex(inner, b) ==
  IF Len(inner) = 2 THEN color_indexed(FromStrRadix(inner, 16, U8Max), b)
  ELSE IF Len(inner) = 6
    THEN color_rgb(FromStrRadix(SubSeq(inner, 1, 2), 16, U8Max),
                   FromStrRadix(SubSeq(inner, 3, 4), 16, U8Max),
                   FromStrRadix(SubSeq(inner, 5, 6), 16, U8Max), b)
  ELSE Fail(b)

\* parse.rs 295-337: t is the whole text, b1 the buffer with "38;"/"48;".
color_numeric(t, b1) ==
  IF Len(t) < 3 THEN Fail(b1)
  ELSE IF t[2] = "(" /\ t[Len(t)] = ")"
    THEN color_decimal(SubSeq(t, 3, Len(t) - 1), b1)
  ELSE IF t[2] = "[" /\ t[Len(t)] = "]"
    THEN color_hex(SubSeq(t, 3, Len(t) - 1), b1)
  ELSE Fail(b1)

\* parse.rs 286-294: `simple` is parse_color_simple(t).
color_named_or_numeric(simple, t, b) ==
  IF simple >= 0 THEN Ok(AppendTo(simple, b))
  ELSE IF Len(t) = 0 THEN Fail(b)
  ELSE IF t[1] = "f" THEN color_numeric(t, b \o <<"3", "8", ";">>)
  ELSE IF t[1] = "b" THEN color_numeric(t, b \o <<"4", "8", ";">>)
  ELSE Fail(b)

parse_color(t, b) == color_named_or_numeric(parse_color_simple(t), t, b)

append_code_SkipUnknown(code, b) ==
  IF code < 0 THEN Ok(b) ELSE Ok(AppendTo(code, b))

\* `?` on a table lookup, then append_to (parse.rs 228-229).
append_code(code, b) == IF code < 0 THEN Fail(b) ELSE Ok(AppendTo(code, b))

parse_sgr_SubFromAddTable(ch, t, b) ==
  CASE ch \in {"+", "-"} -> append_code(parse_add_style(t), b)
    [] ch = "#" -> parse_color(t, b)
    [] OTHER -> Fail(b)

\* parse_sgr (parse.rs 226-234).
parse_sgr(ch, t, b) ==
  CASE ch = "+" -> append_code(parse_add_style(t), b)
    [] ch = "-" -> append_code(parse_sub_style(t), b)
    [] ch = "#" -> parse_color(t, b)
    [] OTHER -> Fail(b)

-----------------------------------------------------------------------------
(* parse_param (parse.rs 124-213).                                         *)

\* The closure next_delim (parse.rs 141-146): the Delim of a character,
\* "None" when it is no delimiter.
next_delim(ch) ==
  CASE ch \in {"+", "-", "#"} -> "Standard"
    [] ch = "&" -> "And"
    [] ch = "}" -> "End"
    [] OTHER -> "None"

\* chars.find_map(next_delim): the index of the first delimiter the iterator
\* still has to yield, 0 when there is none (the iterator is then exhausted).
FindMap(str, it) ==
  LET hit == {j \in (it + 1)..Len(str) : next_delim(str[j]) # "None"}
  IN IF hit = {} THEN 0 ELSE CHOOSE k \in hit : \A m \in hit : k <= m

\* What parse_param hands back: the buffer, where it left the iterator, and
\* the message of the assert! that fired ("" when none did).
Ret(b, it) == [buf |-> b, chars |-> it, panic |-> ""]
Panicked(it, msg) == [buf |-> <<>>, chars |-> it, panic |-> msg]

Pop(b) == SubSeq(b, 1, Len(b) - 1)

\* The `&` arm of the loop (parse.rs 185-191): close the sequence, emit the
\* fragment in braces, reopen when more follows.
passthrough(b, text, nd) ==
  Pop(b) \o <<"m", "{">> \o text \o <<"}">>
    \o (IF nd # "End" THEN <<ESC, "[">> ELSE <<>>)

\* parse.rs 193: the separator pushed after every directive and fragment.
push_sep(b) == Append(b, ";")

\* parse.rs 201-202: the last separator gives way to the final 'm'.
close_seq(b) == Append(Pop(b), "m")

plain_group_NoBraces(b, name) == b \o name

\* parse.rs 157-160 and 207-209: a name in its own brace pair.
plain_group(b, name) == b \o <<"{">> \o name \o <<"}">>

\* Where the loop stopped: the buffer, the iterator, the index of the last
\* delimiter it took, and the message of the assert! that fired.
LoopEnd(b, it, i, msg) == [buf |-> b, chars |-> it, i |-> i, panic |-> msg]

RECURSIVE param_loop(_, _, _, _, _)
\* parse.rs 193-199: the separator, then on to the delimiter found (nd, at
\* index end), or out of the loop when it is '}'.
loop_next(str, end, b, nd) ==
  IF nd = "End" THEN LoopEnd(push_sep(b), end, end, "")
  ELSE param_loop(str, end, push_sep(b), nd, end)

\* parse.rs 177-183: the assert! on parse_sgr's answer r.
loop_sgr(str, end, r, i, nd) ==
  IF ~r.ok THEN LoopEnd(<<>>, end, i, "Invalid keyword")
  ELSE loop_next(str, end, r.buf, nd)

\* parse.rs 175-192: the text between the delimiter at i and the one at end
\* is a directive (delim Standard) or a fragment (delim And).
loop_item(str, end, b, delim, i, nd) ==
  IF delim \in {"Standard", "End"}
    THEN loop_sgr(str, end, parse_sgr(str[i], SubSeq(str, i + 1, end - 1), b),
                  i, nd)
  ELSE loop_next(str, end, passthrough(b, SubSeq(str, i + 1, end - 1), nd), nd)

loop_found(str, end, b, delim, i) ==
  IF end = 0 THEN LoopEnd(b, Len(str), i, "")
  ELSE loop_item(str, end, b, delim, i, next_delim(str[end]))

\* The while-let loop (parse.rs 174-200), from the state (chars, buf, delim
\* of the character at i).  It ends when no delimiter is left or one is '}'.
param_loop(str, it, b, delim, i) == loop_found(str, FindMap(str, it), b, delim, i)

\* parse.rs 201-212, after the loop ended as l.
chain_end(str, l, named, name) ==
  IF l.panic # "" THEN Panicked(l.chars, l.panic)
  ELSE IF str[l.i] # "}" THEN Panicked(l.chars, "Missing close bracket")
  ELSE IF named THEN Ret(plain_group(close_seq(l.buf), name), l.chars)
  ELSE Ret(close_seq(l.buf), l.chars)

\* parse.rs 167-212: the chain that starts at the directive symbol at i;
\* `name` is the captured leading name, `named` whether there is one.
param_chain(str, it, b, i, named, name) ==
  chain_end(str,
            param_loop(str, it, b \o <<ESC, "[">>, next_delim(str[i]), i),
            named, name)

\* parse.rs 151-165: the group starts with a name; end is the first
\* delimiter after it.
named_group(str, start, end, b) ==
  IF end = 0 THEN Ret(b \o SubSeq(str, start - 1, Len(str)), Len(str))
  ELSE IF next_delim(str[end]) = "End"
    THEN Ret(plain_group(b, SubSeq(str, start, end - 1)), end)
  ELSE param_chain(str, end, b, end, TRUE, SubSeq(str, start, end - 1))

parse_param(next_char, str, it, b) ==
  IF next_char = 0 THEN Ret(b \o <<"{">>, it)
  ELSE IF str[next_char] = "{" THEN Ret(b \o <<"{", "{">>, it)
  ELSE IF str[next_char] = "}" THEN Ret(b \o <<"{", "}">>, it)
  ELSE IF str[next_char] \in {"+", "-", "#"}
    THEN param_chain(str, it, b, next_char, FALSE, <<>>)
  ELSE named_group(str, next_char, FindMap(str, it), b)

-----------------------------------------------------------------------------
(* The escapes of parse_string (parse.rs 55-83, 214-225).  A decoder gives *)
(* [ok, ch, chars]: the character (ok) or None, and the iterator after it. *)

Decoded(c, it) == [ok |-> TRUE, ch |-> c, chars |-> it]
NoChar(it) == [ok |-> FALSE, ch |-> "", chars |-> it]

from_u32(n, it) ==
  IF n < 0 \/ ~CharFromU32Valid(n) THEN NoChar(it) ELSE Decoded(Chr(n), it)

\* parse_7bit (parse.rs 215-219), the 'x' being the character at `it`:
\* `end` is the second character after it (chars.nth(1)), `start` is
\* end - 2, and the slice parsed is s[start..=end].
parse_7bit(str, it) ==
  IF it + 2 > Len(str) THEN NoChar(Len(str))
  ELSE from_u32(FromStrRadix(SubSeq(str, (it + 2) - 2, it + 2), 16, CharMax),
                it + 2)

\* parse.rs 223-224: `end` is the first '}' among hit, the slice s[start..end].
u_digits(str, start, hit) ==
  IF hit = {} THEN NoChar(Len(str))
  ELSE from_u32(FromStrRadix(
                  SubSeq(str, start, (CHOOSE k \in hit : \A m \in hit : k <= m) - 1),
                  16, CharMax),
                CHOOSE k \in hit : \A m \in hit : k <= m)

\* parse_24bit (parse.rs 221-225), the 'u' being the character at `it`:
\* `start` is the second character after it.
parse_24bit(str, it) ==
  IF it + 2 > Len(str) THEN NoChar(Len(str))
  ELSE u_digits(str, it + 2, {j \in (it + 3)..Len(str) : str[j] = "}"})

Whitespace == {" ", "\n", "\r", "\t"}

\* parse.rs 73-81: the first character after `it` that is no whitespace, 0
\* when the string ends first.
skip_whitespace(str, it) ==
  LET hit == {j \in (it + 1)..Len(str) : str[j] \notin Whitespace}
  IN IF hit = {} THEN 0 ELSE CHOOSE k \in hit : \A m \in hit : k <= m

\* The one-character escapes (parse.rs 61-69): the character pushed, "" for
\* a character that is none of them.
simple_escape(c) ==
  CASE c = "'" -> "'"
    [] c = "\"" -> "\""
    [] c = "n" -> "\n"
    [] c = "r" -> "\r"
    [] c = "t" -> "\t"
    [] c = "\\" -> "\\"
    [] c = "0" -> "NUL"
    [] OTHER -> ""

\* chars.next(): the index yielded (0 for None) and the iterator after it.
IterNext(str, it) == IF it < Len(str) THEN it + 1 ELSE 0
IterAfter(str, it) == IF it < Len(str) THEN it + 1 ELSE it

-----------------------------------------------------------------------------
(* unwrap_string and parse_raw_string (parse.rs 8-32).                     *)

RECURSIVE TrimStart(_, _)
TrimStart(t, c) ==
  IF t # <<>> /\ Head(t) = c THEN TrimStart(Tail(t), c) ELSE t

RECURSIVE TrimEnd(_, _)
TrimEnd(t, c) ==
  IF t # <<>> /\ t[Len(t)] = c THEN TrimEnd(Pop(t), c) ELSE t

\* str::trim_matches(c)
TrimMatches(t, c) == TrimEnd(TrimStart(t, c), c)

\* strip_prefix('"')?.strip_suffix('"'): [ok, body]
StripQuotes(t) ==
  IF t = <<>> \/ Head(t) # "\"" THEN [ok |-> FALSE, body |-> <<>>]
  ELSE IF Tail(t) = <<>> \/ t[Len(t)] # "\""
    THEN [ok |-> FALSE, body |-> <<>>]
  ELSE [ok |-> TRUE, body |-> SubSeq(t, 2, Len(t) - 1)]

Unwrapped(kind, body, i) == [kind |-> kind, body |-> body, i |-> i]

raw_or_none(q, diff) ==
  IF q.ok THEN Unwrapped("RawString", q.body, diff \div 2)
  ELSE Unwrapped("None", <<>>, 0)

string_or_none(q) ==
  IF q.ok THEN Unwrapped("String", q.body, 0) ELSE Unwrapped("None", <<>>, 0)

\* unwrap_string: [kind, body, i] with kind "String", "RawString" or "None".
unwrap_string(t) ==
  IF t # <<>> /\ Head(t) = "r"
    THEN raw_or_none(StripQuotes(TrimMatches(Tail(t), "#")),
                     Len(Tail(t)) - Len(TrimMatches(Tail(t), "#")))
  ELSE string_or_none(StripQuotes(t))

Repeat(c, n) == [k \in 1..n |-> c]

parse_raw_string(str, i) ==
  <<"r">> \o Repeat("#", i) \o <<"\"">> \o str \o <<"\"">> \o Repeat("#", i)

-----------------------------------------------------------------------------
(* One pass of parse_string's main loop (parse.rs 52-94) on the character  *)
(* at `cur`.  An arm gives [kind, buf, next, chars, why]: "Continue" with  *)
(* the loop's next state, "ReturnNone" (a `?` or `return None`), or        *)
(* "Panic" with the message.                                               *)

Continue(b, it, str) ==
  [kind |-> "Continue", buf |-> b, next |-> IterNext(str, it),
   chars |-> IterAfter(str, it), why |-> ""]
Resume(b, cur) ==
  [kind |-> "Continue", buf |-> b, next |-> cur, chars |-> cur, why |-> ""]
ReturnNone == [kind |-> "ReturnNone", buf |-> <<>>, next |-> 0, chars |-> 0,
               why |-> ""]
PanicWith(msg) == [kind |-> "Panic", buf |-> <<>>, next |-> 0, chars |-> 0,
                   why |-> msg]

\* `?` on a decoder's answer, then buf.push (parse.rs 64, 71).
push_decoded(d, b, str) ==
  IF d.ok THEN Continue(Append(b, d.ch), d.chars, str) ELSE ReturnNone

\* parse.rs 73-81: j is the first character that is no whitespace.
continuation(j, b, str) ==
  IF j # 0 THEN Resume(b, j) ELSE Continue(b, Len(str), str)

\* parse.rs 55-83: nc is the character after the backslash.
escape_char(str, nc, b) ==
  IF nc = 0
    THEN PanicWith("Unwrapping char following escape failed, should never fail")
  ELSE IF simple_escape(str[nc]) # ""
    THEN Continue(Append(b, simple_escape(str[nc])), nc, str)
  ELSE IF str[nc] = "x" THEN push_decoded(parse_7bit(str, nc), b, str)
  ELSE IF str[nc] = "u" THEN push_decoded(parse_24bit(str, nc), b, str)
  ELSE IF str[nc] = "\n" THEN continuation(skip_whitespace(str, nc), b, str)
  ELSE ReturnNone

escape_arm(str, it0, b) == escape_char(str, IterNext(str, it0), b)

after_param(r, str) ==
  IF r.panic # "" THEN PanicWith(r.panic) ELSE Continue(r.buf, r.chars, str)

\* parse.rs 84
open_arm(str, it0, b) ==
  after_param(parse_param(IterNext(str, it0), str, IterAfter(str, it0), b), str)

\* parse.rs 85-90
close_arm(str, it0, b) ==
  IF IterNext(str, it0) # 0 /\ str[IterNext(str, it0)] = "}"
    THEN Continue(b \o <<"}", "}">>, IterAfter(str, it0), str)
  ELSE Continue(Append(b, "}"), IterAfter(str, it0), str)

\* parse.rs 91
literal_arm(str, cur, it0, b) == Continue(Append(b, str[cur]), it0, str)

\* The match of parse.rs 53-92.
loop_arm(str, cur, it0, b) ==
  CASE str[cur] = "\\" -> escape_arm(str, it0, b)
    [] str[cur] = "{" -> open_arm(str, it0, b)
    [] str[cur] = "}" -> close_arm(str, it0, b)
    [] OTHER -> literal_arm(str, cur, it0, b)

\* What a compile returns: [tag, val, why], tag "Some" (val the text),
\* "None", "Panic" (why the message), "NotLiteral", or "Pending" before it
\* has returned.
Result(tag, val, why) == [tag |-> tag, val |-> val, why |-> why]

RECURSIVE run_loop(_, _, _, _)
after_arm(str, a) ==
  IF a.kind = "Continue" THEN run_loop(str, a.next, a.chars, a.buf)
  ELSE IF a.kind = "ReturnNone" THEN Result("None", <<>>, "")
  ELSE Result("Panic", <<>>, a.why)

\* The loop of parse.rs 52-95 run to its end.
run_loop(str, cur, it, b) ==
  IF cur = 0 THEN Result("Some", b, "")
  ELSE after_arm(str, loop_arm(str, cur, it, b))

\* parse_string (parse.rs 47-96) as a function of its argument.
parse_string(str) == run_loop(str, IterNext(str, 0), IterAfter(str, 0), <<>>)

-----------------------------------------------------------------------------
(* The literals the model compiles.  A literal is put together from parts: *)
(* pre, an opener ('{' or '\'), a leading name, a list of items, a closer  *)
(* and suf; `raw` is the number of '#' of a raw literal, -1 for a normal   *)
(* one; `args` are the numbers a generated item was rendered from.         *)

MaxChain == 3
MaxToks == 3
MaxHashes == 1

RECURSIVE Flatten(_)
Flatten(ss) == IF ss = <<>> THEN <<>> ELSE Head(ss) \o Flatten(Tail(ss))

SeqsUpTo(S, n) == UNION {[1..k -> S] : k \in 0..n}

Input(fam, pre, open, name, items, close, suf, args, raw) ==
  [fam |-> fam, pre |-> pre, open |-> open, name |-> name, items |-> items,
   close |-> close, suf |-> suf, args |-> args, raw |-> raw]

Body(t) == t.pre \o t.open \o t.name \o Flatten(t.items) \o t.close \o t.suf

Quote(str) == <<"\"">> \o str \o <<"\"">>
RawQuote(str, h) == <<"r">> \o Repeat("#", h) \o Quote(str) \o Repeat("#", h)

Literal(t) ==
  IF t.fam = "nonliteral" THEN Body(t)
  ELSE IF t.raw >= 0 THEN RawQuote(Body(t), t.raw)
  ELSE Quote(Body(t))

None == <<>>
Open == <<"{">>
Close == <<"}">>
Backslash == <<"\\">>

Pres == {None, <<"a">>}
Sufs == {None, <<"z">>}

\* Two hex digits and the plain decimal digits of a byte, as a test writes
\* them.
Hex2(n, digits) == <<digits[(n \div 16) + 1], digits[(n % 16) + 1]>>
RECURSIVE Dec(_)
Dec(n) == IF n < 10 THEN <<DecDigits[n + 1]>>
          ELSE Append(Dec(n \div 10), DecDigits[(n % 10) + 1])

AddKeywords == {<<"R", "e", "s", "e", "t">>, <<"B", "o", "l", "d">>, <<"D", "i", "m">>, <<"I", "t", "a", "l", "i", "c">>, <<"U", "n", "d", "e", "r", "l", "i", "n", "e">>,
                <<"B", "l", "i", "n", "k", "i", "n", "g">>, <<"I", "n", "v", "e", "r", "s", "e">>, <<"H", "i", "d", "d", "e", "n">>, <<"S", "t", "r", "i", "k", "e", "t", "h", "r", "o", "u", "g", "h">>}
SubKeywords == AddKeywords \ {<<"R", "e", "s", "e", "t">>}
ColorKeywords ==
  {<<"B", "l", "a", "c", "k", "F", "g">>, <<"R", "e", "d", "F", "g">>, <<"G", "r", "e", "e", "n", "F", "g">>, <<"Y", "e", "l", "l", "o", "w", "F", "g">>, <<"B", "l", "u", "e", "F", "g">>,
   <<"M", "a", "g", "e", "n", "t", "a", "F", "g">>, <<"C", "y", "a", "n", "F", "g">>, <<"W", "h", "i", "t", "e", "F", "g">>, <<"D", "e", "f", "a", "u", "l", "t", "F", "g">>,
   <<"B", "l", "a", "c", "k", "B", "g">>, <<"R", "e", "d", "B", "g">>, <<"G", "r", "e", "e", "n", "B", "g">>, <<"Y", "e", "l", "l", "o", "w", "B", "g">>, <<"B", "l", "u", "e", "B", "g">>,
   <<"M", "a", "g", "e", "n", "t", "a", "B", "g">>, <<"C", "y", "a", "n", "B", "g">>, <<"W", "h", "i", "t", "e", "B", "g">>, <<"D", "e", "f", "a", "u", "l", "t", "B", "g">>}
NoKeywords == {<<"S", "p", "a", "r", "k", "l", "e">>, <<"b", "o", "l", "d">>, <<"B", "o", "l">>, <<"B", "o", "l", "d", "s">>, <<"B", "l", "i", "n", "k">>, None}
AllWords == AddKeywords \cup ColorKeywords \cup NoKeywords

\* The directives that are valid: a sign and a keyword of the sign's table.
ValidDirectives ==
  {<<"+">> \o k : k \in AddKeywords} \cup {<<"-">> \o k : k \in SubKeywords}
    \cup {<<"#">> \o k : k \in ColorKeywords}
AllDirectives == {<<sg>> \o k : sg \in {"+", "-", "#"}, k \in AllWords}
InvalidDirectives == AllDirectives \ ValidDirectives

\* Colour texts that are neither a colour keyword nor a well-formed numeric
\* colour.
BadColors ==
  {<<"#", "f", "(", "1", ",", "2", ")">>, <<"#", "f", "(", "2", "5", "6", ")">>, <<"#", "f", "[", "a", "b", "c", "]">>, <<"#", "f", "[", "g", "g", "]">>, <<"#", "f", "(", ")">>, <<"#", "f", "[", "]">>,
   <<"#", "b", "(", "1", ",", "2", ",", "3", ",", "4", ")">>, <<"#", "x", "(", "1", ")">>, <<"#", "f">>, <<"#", "f", "(">>, <<"#", "b", "(", "1", "]">>, <<"#", "f", "[", "1", "F", ")">>,
   <<"#", "(", "1", ")">>, <<"#", "f", "(", "a", ")">>, <<"#", "f", "(", " ", "1", ")">>, <<"#", "f", "(", "1", ",", ",", "2", ")">>, <<"#", "b", "[", "1", "2", "3", "4", "5", "]">>,
   <<"#", "f", "[", "1", "2", "3", "4", "5", "6", "7", "]">>, <<"#", "F", "(", "1", ")">>, <<"#", "f", "(", "1", ",", "2", ",", "9", "9", "9", ")">>, <<"#", "b", "[", "1", "g", "]">>, <<"#", "f", "[", "0", "0", "1", "1", "z", "z", "]">>,
   <<"#", "r", "e", "d", "f", "g">>, <<"#", "f", "1">>}

Frag == <<"&", "f", "r", "a", "g">>
CoreItems == {<<"+", "B", "o", "l", "d">>, <<"-", "D", "i", "m">>, <<"#", "R", "e", "d", "F", "g">>, Frag, <<"-", "S", "p", "a", "r", "k", "l", "e">>}
CoreValid == CoreItems \cap ValidDirectives

GroupInputs ==
  {Input("group", p, Open, n, c, cl, sf, <<>>, -1) :
     p \in Pres, n \in {None, <<"n", "a", "m", "e">>}, c \in SeqsUpTo(CoreItems, MaxChain),
     cl \in {Close, None}, sf \in Sufs}

PlainNames ==
  {None, <<"n", "a", "m", "e">>, <<"0">>, <<"a", " ", "b">>, <<"x", ":", ">", "5">>, <<"a", "{", "b">>, <<"a", "\\", "q">>, <<"\\">>,
   <<"B", "o", "l", "d">>, <<":", "?">>}
PlaceholderInputs ==
  {Input("placeholder", p, Open, n, <<>>, Close, sf, <<>>, -1) :
     p \in Pres, n \in PlainNames, sf \in Sufs}

KeywordInputs ==
  {Input("keyword", None, Open, None, <<d>>, Close, None, <<>>, -1) :
     d \in AllDirectives}

BadColorInputs ==
  {Input("badcolor", None, Open, n, a \o <<d>> \o b, cl, None, <<>>, -1) :
     n \in {None, <<"n", "a", "m", "e">>}, a \in {<<>>, <<<<"+", "B", "o", "l", "d">>>>, <<Frag>>},
     d \in BadColors, b \in {<<>>, <<<<"-", "D", "i", "m">>>>}, cl \in {Close, None}}

Fg == 38
Bg == 48
Plane(code) == IF code = Fg THEN "f" ELSE "b"
Bytes == 0..255
ByteSamples == {0, 9, 10, 99, 100, 170, 187, 204, 255}

IndexedInputs ==
  {Input("idx_hex", None, Open, None,
         <<<<"#", Plane(p), "[">> \o Hex2(n, dg) \o <<"]">>>>,
         Close, None, <<p, n>>, -1) :
     p \in {Fg, Bg}, n \in Bytes, dg \in {HexLower, HexUpper}}
  \cup
  {Input("idx_dec", None, Open, None,
         <<<<"#", Plane(p), "(">> \o Dec(n) \o <<")">>>>,
         Close, None, <<p, n>>, -1) :
     p \in {Fg, Bg}, n \in Bytes}

RgbInputs ==
  {Input("rgb_hex", None, Open, None,
         <<<<"#", Plane(p), "[">> \o Hex2(r, HexLower) \o Hex2(g, HexUpper)
             \o Hex2(b, HexLower) \o <<"]">>>>,
         Close, None, <<p, r, g, b>>, -1) :
     p \in {Fg, Bg}, r \in ByteSamples, g \in ByteSamples, b \in ByteSamples}
  \cup
  {Input("rgb_dec", None, Open, None,
         <<<<"#", Plane(p), "(">> \o Dec(r) \o <<",">> \o Dec(g) \o <<",">>
             \o Dec(b) \o <<")">>>>,
         Close, None, <<p, r, g, b>>, -1) :
     p \in {Fg, Bg}, r \in ByteSamples, g \in ByteSamples, b \in ByteSamples}

SevenBit == 0..127
Hex7Inputs ==
  {Input("hex7", c[1], Backslash, None, <<<<"x">> \o Hex2(n, dg)>>, None, c[2],
         <<n>>, -1) :
     c \in {<<None, None>>, <<<<"a">>, <<"z">>>>}, n \in SevenBit,
     dg \in {HexLower, HexUpper}}

Escapes ==
  {<<"'">>, <<"\"">>, <<"n">>, <<"r">>, <<"t">>, <<"\\">>, <<"0">>, <<"q">>, None, <<"x", "4">>,
   <<"x">>, <<"x", "Z", "Z">>, <<"x", "8", "0">>, <<"x", "f", "f">>, <<"u", "{", "4", "1", "}">>, <<"u", "{", "1", "F", "6", "0", "0", "}">>, <<"u", "{", "D", "8", "0", "0", "}">>,
   <<"u", "{", "}">>, <<"u", "{", "1", "1", "0", "0", "0", "0", "}">>, <<"u", "{", "4", "1">>, <<"u">>, <<"u", "{", "+", "4", "1", "}">>, <<"\n", " ", " ", "X">>, <<"\n">>,
   <<"\n", " ", "\t", "\r", "\n">>, <<"\n", " ", "{", "+", "B", "o", "l", "d", "}">>}
EscapeInputs ==
  {Input("escape", c[1], Backslash, None, <<e>>, None, c[2], <<>>, -1) :
     c \in {<<None, None>>, <<<<"a">>, <<"z">>>>}, e \in Escapes}

FreeToks == {<<"a">>, <<"{", "{">>, <<"}", "}">>, <<"}">>, <<"{">>, <<"{", "}">>, <<"\\", "n">>, <<"{", "+", "B", "o", "l", "d", "}">>}
FreeInputs ==
  {Input("free", None, None, None, ts, None, None, <<>>, -1) :
     ts \in SeqsUpTo(FreeToks, MaxToks)}

RawBodies == {<<"{", "+", "B", "o", "l", "d", "}">>, <<"a", "\\", "d", "{", "#", "R", "e", "d", "F", "g", "}", "z">>, <<"p", "l", "a", "i", "n">>, <<"{", "n", "a", "m", "e", "}">>,
              <<"{", "+", "B", "o", "l", "d", "-", "D", "i", "m", "}", "\\", "n">>, None}
RawInputs ==
  {Input("raw", None, None, None, <<b>>, None, None, <<>>, h) :
     b \in RawBodies, h \in 0..MaxHashes}

NonLiterals == {<<"4", "2">>, <<"b", "\"", "x", "\"">>, <<"\"", "a", "b", "c">>, <<"r", "#", "x", "#">>, <<"\"">>, None, <<"r">>,
                <<"n", "a", "m", "e">>}
NonLiteralInputs ==
  {Input("nonliteral", None, None, None, <<b>>, None, None, <<>>, -1) :
     b \in NonLiterals}

Inputs ==
  GroupInputs \cup PlaceholderInputs \cup KeywordInputs \cup BadColorInputs
    \cup IndexedInputs \cup RgbInputs \cup Hex7Inputs \cup EscapeInputs
    \cup FreeInputs \cup RawInputs \cup NonLiteralInputs

-----------------------------------------------------------------------------
(* The compile of one literal, step by step.                               *)

Pending == Result("Pending", <<>>, "")

\* SGRBuilder::default() and a writer nothing was written to.
NewBuilder ==
  /\ builder = <<>>
  /\ sink = <<>>
  /\ log = <<>>
  /\ broken = FALSE

Init ==
  /\ NewBuilder
  /\ tmpl \in Inputs
  /\ lit = Literal(tmpl)
  /\ pc = "unwrap"
  /\ s = <<>>
  /\ hashes = 0
  /\ next = 0
  /\ chars = 0
  /\ buf = <<>>
  /\ out = Pending

UnwrapTo(u) ==
  /\ pc' = (CASE u.kind = "String" -> "string"
               [] u.kind = "RawString" -> "raw"
               [] OTHER -> "done")
  /\ s' = u.body
  /\ hashes' = u.i
  /\ out' = IF u.kind = "None" THEN Result("NotLiteral", <<>>, "") ELSE out

\* unwrap_string (parse.rs 8-21) on the token; a token that is no string
\* literal ends the compile.
Unwrap ==
  /\ pc = "unwrap"
  /\ UnwrapTo(unwrap_string(lit))
  /\ UNCHANGED <<tmpl, lit, next, chars, buf, builder, sink, log, broken>>

\* parse_raw_string (parse.rs 22-32)
ParseRawString ==
  /\ pc = "raw"
  /\ out' = Result("Some", parse_raw_string(s, hashes), "")
  /\ pc' = "done"
  /\ UNCHANGED <<tmpl, lit, s, hashes, next, chars, buf, builder, sink, log, broken>>

\* parse_string's entry (parse.rs 48-50)
Begin ==
  /\ pc = "string"
  /\ buf' = <<>>
  /\ next' = IterNext(s, 0)
  /\ chars' = IterAfter(s, 0)
  /\ pc' = "loop"
  /\ UNCHANGED <<tmpl, lit, s, hashes, out, builder, sink, log, broken>>

\* One pass of the loop with the arm's outcome applied.
Apply(a) ==
  /\ buf' = a.buf
  /\ next' = a.next
  /\ chars' = a.chars
  /\ pc' = IF a.kind = "Continue" THEN "loop" ELSE "done"
  /\ out' = (CASE a.kind = "Continue" -> out
               [] a.kind = "ReturnNone" -> Result("None", <<>>, "")
               [] OTHER -> Result("Panic", <<>>, a.why))
  /\ UNCHANGED <<tmpl, lit, s, hashes, builder, sink, log, broken>>

AtChar(c) == pc = "loop" /\ next # 0 /\ s[next] = c

Escape == AtChar("\\") /\ Apply(escape_arm(s, chars, buf))

OpenBrace == AtChar("{") /\ Apply(open_arm(s, chars, buf))

CloseBrace == AtChar("}") /\ Apply(close_arm(s, chars, buf))

LiteralChar ==
  /\ pc = "loop" /\ next # 0 /\ s[next] \notin {"\\", "{", "}"}
  /\ Apply(literal_arm(s, next, chars, buf))

\* The loop's exit (parse.rs 95)
Finish ==
  /\ pc = "loop" /\ next = 0
  /\ out' = Result("Some", buf, "")
  /\ pc' = "done"
  /\ UNCHANGED <<tmpl, lit, s, hashes, next, chars, buf, builder, sink, log, broken>>

Next ==
  \/ Unwrap
  \/ ParseRawString
  \/ Begin
  \/ Escape
  \/ OpenBrace
  \/ CloseBrace
  \/ LiteralChar
  \/ Finish

Spec == Init /\ [][Next]_vars

Done == pc = "done"


-----------------------------------------------------------------------------
(* SGRBuilder and the provided methods of SGRWriter (writing.rs 23-239).   *)
(* The writer is any CapableWriter: a write(s) returns Ok having taken the *)
(* whole of s, or returns Err having taken some prefix of s (none of it, a *)
(* part as write_all on a full slice leaves, or all of it), on which `?`   *)
(* returns from the calling method at once.  A fault <<accept, part>> of   *)
(* one call says how its writes go: the first `accept` writes are Ok and   *)
(* the next one errs after `part` characters; accept = the number of       *)
(* writes of the call is the call with no error.                           *)

MaxCalls == 3

\* The codes and the slices of codes the calls are made with.
CodeSamples == {0, 255}
Slices == {<<>>, <<5, 196>>}

\* The texts write_inner is called with.
Texts == {<<"h", "i">>}

\* u8::to_string (writing.rs 208, 212): decimal, no leading zero.
to_string(n) ==
  IF n >= 100
    THEN <<DecDigits[(n \div 100) + 1], DecDigits[((n \div 10) % 10) + 1],
           DecDigits[(n % 10) + 1]>>
  ELSE IF n >= 10 THEN <<DecDigits[(n \div 10) + 1], DecDigits[(n % 10) + 1]>>
  ELSE <<DecDigits[n + 1]>>

\* writing.rs 174-176
write_code(v, code) == Append(v, code)

\* writing.rs 179-181
write_codes(v, cs) == v \o cs

\* writing.rs 186-189
chain_code(v, code) == Append(v, code)

\* writing.rs 194-197
chain_codes(v, cs) == v \o cs

\* The writes of writing.rs 208-213 (229-234), in order: the first code,
\* then ";" and a code for each of the rest.
code_writes(v) ==
  [k \in 1..(2 * Len(v) - 1) |->
     IF k % 2 = 1 THEN to_string(v[(k + 1) \div 2]) ELSE <<";">>]

\* The faults a call that makes the writes `ws` can meet.
Faults(ws) ==
  {<<Len(ws), 0>>}
    \cup UNION {{<<a, p>> : p \in 0..Len(ws[a + 1])} : a \in 0..(Len(ws) - 1)}

\* The text the writer took of the writes `ws` under the fault f.
Taken(ws, f) ==
  IF f[1] >= Len(ws) THEN Flatten(ws)
  ELSE Flatten(SubSeq(ws, 1, f[1])) \o SubSeq(ws[f[1] + 1], 1, f[2])

\* What one call did: the buffer it leaves, the text the writer took, and
\* whether it returned Ok.
Flushed(v, wrote, ok) == [codes |-> v, wrote |-> wrote, ok |-> ok]

\* All the writes of a write_to on a non-empty buffer (writing.rs 207-215);
\* clear() comes before the last one.
to_writes(v) == <<<<ESC, "[">>>> \o code_writes(v) \o <<<<"m">>>>

\* writing.rs 207-215 on a non-empty buffer.
write_all(v, ws, f) ==
  Flushed(IF f[1] >= Len(ws) - 1 THEN <<>> ELSE v, Taken(ws, f), f[1] >= Len(ws))

write_to_KeepCodes(v, f) ==
  IF v = <<>> THEN Flushed(v, <<>>, TRUE)
  ELSE [write_all(v, to_writes(v), f) EXCEPT !.codes = v]

\* write_to (writing.rs 203-217)
write_to(v, f) ==
  IF v = <<>> THEN Flushed(v, <<>>, TRUE)
  ELSE write_all(v, to_writes(v), f)

\* writing.rs 229-235 on a non-empty buffer; clear() comes after the writes.
write_part(v, ws, f) ==
  Flushed(IF f[1] >= Len(ws) THEN <<>> ELSE v, Taken(ws, f), f[1] >= Len(ws))

\* write_partial (writing.rs 227-238)
write_partial(v, f) ==
  IF v = <<>> THEN Flushed(v, <<>>, TRUE)
  ELSE write_part(v, code_writes(v), f)

\* The faults of a write_to / write_partial on the buffer v.
ToFaults(v) == IF v = <<>> THEN {<<0, 0>>} ELSE Faults(to_writes(v))
PartialFaults(v) == IF v = <<>> THEN {<<0, 0>>} ELSE Faults(code_writes(v))

\* SGRWriter::write_inner (writing.rs 33-35): one write of the text.
write_inner(str, f) == Flushed(<<>>, Taken(<<str>>, f), f[1] >= 1)

\* SGRWriter::place_sgr, clean_sgr, inline_sgr and sgr (writing.rs 50-54,
\* 64-68, 76-80, 90-94): a builder of the call's own, the codes `cs` the
\* value puts on it, and write_to.
place_sgr(cs, f) == write_to(write_codes(<<>>, cs), f)
clean_sgr(cs, f) == write_to(write_codes(<<>>, cs), f)
inline_sgr(cs, f) == write_to(write_codes(<<>>, cs), f)
sgr(cs, f) == write_to(write_codes(<<>>, cs), f)

\* SGRWriter::partial_sgr (writing.rs 108-112), the same with write_partial.
partial_sgr(cs, f) == write_partial(write_codes(<<>>, cs), f)

\* A call as the log keeps it: what kind of call it was ("append" for
\* write_code, write_codes, chain_code and chain_codes, "sgr" for place_sgr,
\* clean_sgr, inline_sgr and sgr, else the method's name), the codes and the
\* text it was given.
Call(kind, arg, text) == [kind |-> kind, arg |-> arg, text |-> text]

\* The calls explored are MaxCalls at most.
CanCall == Len(log) < MaxCalls

\* A call that only appends to the buffer.
Push(arg, v) ==
  /\ builder' = v
  /\ log' = Append(log, Call("append", arg, <<>>))
  /\ UNCHANGED <<sink, broken>>
  /\ UNCHANGED cvars

\* A call on the builder that writes to the writer.
Flush(kind, f) ==
  /\ builder' = f.codes
  /\ sink' = sink \o f.wrote
  /\ broken' = (broken \/ ~f.ok)
  /\ log' = Append(log, Call(kind, <<>>, <<>>))
  /\ UNCHANGED cvars

\* A call on the writer: the builder in hand is not touched.
Direct(kind, arg, text, f) ==
  /\ sink' = sink \o f.wrote
  /\ broken' = (broken \/ ~f.ok)
  /\ log' = Append(log, Call(kind, arg, text))
  /\ UNCHANGED builder
  /\ UNCHANGED cvars

WriteCode ==
  /\ CanCall
  /\ \E c \in CodeSamples : Push(<<c>>, write_code(builder, c))

WriteCodes ==
  /\ CanCall
  /\ \E cs \in Slices : Push(cs, write_codes(builder, cs))

ChainCode ==
  /\ CanCall
  /\ \E c \in CodeSamples : Push(<<c>>, chain_code(builder, c))

ChainCodes ==
  /\ CanCall
  /\ \E cs \in Slices : Push(cs, chain_codes(builder, cs))

WriteTo ==
  /\ CanCall
  /\ \E f \in ToFaults(builder) : Flush("write_to", write_to(builder, f))

WritePartial ==
  /\ CanCall
  /\ \E f \in PartialFaults(builder) :
       Flush("write_partial", write_partial(builder, f))

WriteInner ==
  /\ CanCall
  /\ \E str \in Texts : \E f \in Faults(<<str>>) :
       Direct("write_inner", <<>>, str, write_inner(str, f))

PlaceSgr ==
  /\ CanCall
  /\ \E cs \in Slices : \E f \in ToFaults(cs) :
       Direct("sgr", cs, <<>>, place_sgr(cs, f))

CleanSgr ==
  /\ CanCall
  /\ \E cs \in Slices : \E f \in ToFaults(cs) :
       Direct("sgr", cs, <<>>, clean_sgr(cs, f))

InlineSgr ==
  /\ CanCall
  /\ \E cs \in Slices : \E f \in ToFaults(cs) :
       Direct("sgr", cs, <<>>, inline_sgr(cs, f))

EasySgr ==
  /\ CanCall
  /\ \E cs \in Slices : \E f \in ToFaults(cs) :
       Direct("sgr", cs, <<>>, sgr(cs, f))

PartialSgr ==
  /\ CanCall
  /\ \E cs \in Slices : \E f \in PartialFaults(cs) :
       Direct("partial_sgr", cs, <<>>, partial_sgr(cs, f))

\* No compile is under way while the builder is used.
NoCompile ==
  /\ tmpl = Input("none", None, None, None, <<>>, None, None, <<>>, -1)
  /\ lit = <<>>
  /\ pc = "done"
  /\ s = <<>>
  /\ hashes = 0
  /\ next = 0
  /\ chars = 0
  /\ buf = <<>>
  /\ out = Pending

BuilderInit == NewBuilder /\ NoCompile

BuilderNext ==
  \/ WriteCode
  \/ WriteCodes
  \/ ChainCode
  \/ ChainCodes
  \/ WriteTo
  \/ WritePartial
  \/ WriteInner
  \/ PlaceSgr
  \/ CleanSgr
  \/ InlineSgr
  \/ EasySgr
  \/ PartialSgr

BuilderSpec == BuilderInit /\ [][BuilderNext]_vars
-----------------------------------------------------------------------------
(* What the properties below are stated with.                              *)

Returned(text) == out = Result("Some", text, "")
Failed == out.tag \in {"None", "Panic"} /\ out.val = <<>>

\* The code a valid directive stands for in the table of its sign.
TableCode(d) ==
  CASE Head(d) = "+" -> parse_add_style(Tail(d))
    [] Head(d) = "-" -> parse_sub_style(Tail(d))
    [] OTHER -> parse_color_simple(Tail(d))

RECURSIVE Joined(_)
\* Numbers in plain decimal, joined by ';'.
Joined(codes) ==
  IF Len(codes) = 1 THEN Dec(codes[1])
  ELSE Dec(Head(codes)) \o <<";">> \o Joined(Tail(codes))

\* ESC [ c1 ; ... ; cn m
Sgr(codes) == <<ESC, "[">> \o Joined(codes) \o <<"m">>

Codes(items) == [k \in 1..Len(items) |-> TableCode(items[k])]

AllValid(items) == \A k \in 1..Len(items) : items[k] \in ValidDirectives

ClosedGroup == tmpl.fam \in {"group", "keyword", "badcolor"} /\ tmpl.close = Close

Contains(text, part) ==
  \E k \in 0..(Len(text) - Len(part)) : SubSeq(text, k + 1, k + Len(part)) = part

-----------------------------------------------------------------------------
(* C1: a group {<styles A>&frag<styles B>} with valid, non-empty chains A  *)
(* and B compiles to ESC[<codes of A>m, then {frag}, then ESC[<codes of    *)
(* B>m, with no empty code field in the reopened sequence.                 *)
C1_PassthroughSplit ==
  (Done /\ ClosedGroup /\ tmpl.name = None)
    => \A k \in 2..(Len(tmpl.items) - 1) :
         ( /\ tmpl.items[k] = Frag
           /\ AllValid(SubSeq(tmpl.items, 1, k - 1))
           /\ AllValid(SubSeq(tmpl.items, k + 1, Len(tmpl.items))) )
         => Returned(tmpl.pre
                       \o Sgr(Codes(SubSeq(tmpl.items, 1, k - 1)))
                       \o <<"{">> \o Tail(Frag) \o <<"}">>
                       \o Sgr(Codes(SubSeq(tmpl.items, k + 1, Len(tmpl.items))))
                       \o tmpl.suf)

(* C2: a non-empty chain d1..dn of valid +keyword, -keyword and            *)
(* #NamedColor directives in one brace pair, with no & and no leading      *)
(* name, compiles to the one sequence ESC[c1;...;cn m, ci the table code   *)
(* of di, in source order.                                                 *)
C2_Chaining ==
  (Done /\ ClosedGroup /\ tmpl.name = None /\ tmpl.items # <<>>
     /\ AllValid(tmpl.items))
    => Returned(tmpl.pre \o Sgr(Codes(tmpl.items)) \o tmpl.suf)

C2_Witness ==
  /\ Done
  /\ tmpl.fam = "group"
  /\ tmpl.items = <<<<"+", "B", "o", "l", "d">>, <<"-", "D", "i", "m">>, <<"#", "R", "e", "d", "F", "g">>>>
  /\ s = <<"{", "+", "B", "o", "l", "d", "-", "D", "i", "m", "#", "R", "e", "d", "F", "g", "}">>
  /\ Returned(<<ESC>> \o <<"[", "1", ";", "2", "2", ";", "3", "1", "m">>)

(* C3: a group whose '{' has no matching '}' before the end of input makes *)
(* the compile fail with the missing-close-bracket failure, whatever the   *)
(* group starts with: a style symbol, a plain name, or nothing.            *)
C3_MissingCloseFails ==
  (Done /\ tmpl.fam = "group" /\ tmpl.close = None)
    => out = Result("Panic", <<>>, "Missing close bracket")

(* C4: a +, - or # directive, at any position of a chain, whose text is no *)
(* keyword of its table and no well-formed numeric colour makes the whole  *)
(* compile fail with no output: the directive is never skipped.            *)
C4_InvalidDirectiveAborts ==
  (Done /\ tmpl.fam \in {"group", "keyword", "badcolor"}
     /\ \E k \in 1..Len(tmpl.items) :
          tmpl.items[k] \in InvalidDirectives \cup BadColors)
    => Failed

C4_Witness ==
  /\ Done
  /\ s = <<"{", "+", "B", "o", "l", "d", "-", "S", "p", "a", "r", "k", "l", "e", "}">>
  /\ out = Result("Panic", <<>>, "Invalid keyword")

(* C5: for every input parse_string returns a value, the compiled text or  *)
(* a failure; it never panics.                                             *)
C5_NeverPanics == out.tag # "Panic"

(* C6: \xHH with HH in 00..7F compiles to the one character with code HH,  *)
(* and the characters around the escape are processed as usual.            *)
C6_HexEscapeDecodes ==
  (Done /\ tmpl.fam = "hex7")
    => Returned(tmpl.pre \o <<Chr(tmpl.args[1])>> \o tmpl.suf)

(* C7: `{{` compiles to the single character `{` and `}}` to the single    *)
(* character `}`, one output brace per doubled pair, wherever it occurs.   *)
Collapsed(tok) ==
  CASE tok = <<"{", "{">> -> <<"{">>
    [] tok = <<"}", "}">> -> <<"}">>
    [] OTHER -> tok

OnlyDoubledBraces ==
  /\ tmpl.fam = "free"
  /\ \A k \in 1..Len(tmpl.items) : tmpl.items[k] \in {<<"a">>, <<"{", "{">>, <<"}", "}">>}

C7_BraceDoublingCollapses ==
  (Done /\ OnlyDoubledBraces)
    => Returned(Flatten([k \in 1..Len(tmpl.items) |-> Collapsed(tmpl.items[k])]))

(* C8: the hex form and the decimal form of one colour compile to the same *)
(* text: {#p[NN]} and {#p(n)} to ESC[<38|48>;5;n m, {#p[RRGGBB]} and       *)
(* {#p(r,g,b)} to ESC[<38|48>;2;r;g;b m, numbers in plain decimal.         *)
C8_HexDecimalEquivalence ==
  Done =>
    /\ tmpl.fam \in {"idx_hex", "idx_dec"}
         => Returned(Sgr(<<tmpl.args[1], 5, tmpl.args[2]>>))
    /\ tmpl.fam \in {"rgb_hex", "rgb_dec"}
         => Returned(Sgr(<<tmpl.args[1], 2, tmpl.args[2], tmpl.args[3],
                          tmpl.args[4]>>))

C8_Witness ==
  /\ Done
  /\ tmpl.fam = "rgb_hex"
  /\ s = <<"{", "#", "f", "[", "a", "a", "B", "B", "c", "c", "]", "}">>
  /\ Returned(<<ESC>> \o <<"[", "3", "8", ";", "2", ";", "1", "7", "0", ";", "1", "8", "7", ";", "2", "0", "4", "m">>)

(* C9: a brace group {name} whose content has none of + - # & } (the empty *)
(* group {} too) is emitted as it stands: no escape sequence, the name not *)
(* validated, the text before and after it unaffected.                     *)
C9_PlainPlaceholderVerbatim ==
  (Done /\ ( \/ tmpl.fam = "placeholder"
             \/ tmpl.fam = "group" /\ tmpl.items = <<>> /\ tmpl.close = Close ))
    => Returned(tmpl.pre \o <<"{">> \o tmpl.name \o <<"}">> \o tmpl.suf)

C9_Witness ==
  /\ Done
  /\ tmpl.fam = "placeholder"
  /\ s = <<"a", "{", "x", ":", ">", "5", "}", "z">>
  /\ Returned(<<"a", "{", "x", ":", ">", "5", "}", "z">>)

(* C10: in a raw literal the backslash sequences are left alone, and every *)
(* {+..}, {-..}, {#..} group is still compiled to its escape sequence, as  *)
(* in a normal literal.                                                    *)
C10_RawDirectivesCompiled ==
  (Done /\ tmpl.fam = "raw")
    => /\ Contains(Body(tmpl), <<"{", "+", "B", "o", "l", "d", "}">>)
            => out.tag = "Some" /\ Contains(out.val, Sgr(<<1>>))
       /\ Contains(Body(tmpl), <<"{", "#", "R", "e", "d", "F", "g", "}">>)
            => out.tag = "Some" /\ Contains(out.val, Sgr(<<31>>))


(* C11: when a compile succeeds on a template whose text and escapes give  *)
(* no ESC of their own, every ESC of the output starts a well-formed       *)
(* sequence: ESC, `[`, one or more decimal codes joined by single `;` with *)
(* no empty field and no trailing `;`, then `m`; and a group emits no `m`  *)
(* other than the one that ends such a sequence (no bare ESC m, no ESC[;,  *)
(* no stray m after a passthrough fragment).                               *)
Count(text, c) == Cardinality({k \in 1..Len(text) : text[k] = c})

CodeList(t) ==
  /\ t # <<>>
  /\ \A k \in 1..Len(t) :
       \/ \E d \in 1..10 : t[k] = DecDigits[d]
       \/ t[k] = ";" /\ k > 1 /\ k < Len(t) /\ t[k + 1] # ";"

SgrAt(text, i) ==
  /\ i + 3 <= Len(text)
  /\ text[i + 1] = "["
  /\ \E j \in (i + 3)..Len(text) :
       text[j] = "m" /\ CodeList(SubSeq(text, i + 2, j - 1))

WellFormedSequences(text) ==
  \A i \in 1..Len(text) : text[i] = ESC => SgrAt(text, i)

NoStrayM(text, passed) == Count(text, "m") = Count(text, ESC) + Count(passed, "m")

NoEscOfItsOwn == ~(tmpl.fam = "hex7" /\ tmpl.args = <<27>>)

C11_WellFormedSequences ==
  (Done /\ out.tag = "Some" /\ tmpl.raw < 0 /\ NoEscOfItsOwn)
    => /\ WellFormedSequences(out.val)
       /\ tmpl.fam = "group"
            => NoStrayM(out.val, tmpl.pre \o tmpl.name \o tmpl.suf)

(* C12: when the main loop is at a `}` that is not followed by another     *)
(* `}`, it appends the one `}` and goes on with the character right after  *)
(* it, which is then processed as any character is: nothing is skipped.    *)
AtLoneClose == AtChar("}") /\ ~(chars < Len(s) /\ s[chars + 1] = "}")

C12_LoneCloseBraceKeepsNext ==
  [][AtLoneClose => /\ buf' = Append(buf, "}")
                    /\ pc' = "loop"
                    /\ next' = IterNext(s, chars)
                    /\ chars' = IterAfter(s, chars)]_vars

(* C13: on a writer that has never failed, the text written is that of the *)
(* calls made, in order: each write_to on codes c1..cn (n >= 1) appended   *)
(* since the last flush wrote exactly ESC[c1;c2;...;cn m and emptied the   *)
(* buffer, each write_to on an empty buffer (a second write_to in a row    *)
(* too) wrote nothing, so no code is written twice; the buffer holds the   *)
(* codes appended since the last flush.  (A write_partial is a flush that  *)
(* writes c1;...;cn alone; a call on the writer itself writes its own text *)
(* or codes and leaves the buffer as it is.)                               *)
RECURSIVE Replay(_, _, _)
Replayed(pending, text) == [codes |-> pending, sink |-> text]

ReplayCall(call, rest, pending, text) ==
  CASE call.kind = "append" -> Replay(rest, pending \o call.arg, text)
    [] call.kind = "write_to" /\ pending # <<>> ->
         Replay(rest, <<>>, text \o Sgr(pending))
    [] call.kind = "write_partial" /\ pending # <<>> ->
         Replay(rest, <<>>, text \o Joined(pending))
    [] call.kind \in {"write_to", "write_partial"} /\ pending = <<>> ->
         Replay(rest, <<>>, text)
    [] call.kind = "write_inner" -> Replay(rest, pending, text \o call.text)
    [] call.kind = "sgr" /\ call.arg # <<>> ->
         Replay(rest, pending, text \o Sgr(call.arg))
    [] call.kind = "partial_sgr" /\ call.arg # <<>> ->
         Replay(rest, pending, text \o Joined(call.arg))
    [] OTHER -> Replay(rest, pending, text)

Replay(calls, pending, text) ==
  IF calls = <<>> THEN Replayed(pending, text)
  ELSE ReplayCall(Head(calls), Tail(calls), pending, text)

C13_BuilderFlush ==
  ~broken => Replayed(builder, sink) = Replay(log, <<>>, <<>>)

C13_Witness ==
  /\ ~broken
  /\ log = <<Call("append", <<5, 196>>, <<>>), Call("write_to", <<>>, <<>>),
             Call("write_to", <<>>, <<>>)>>
  /\ builder = <<>>
  /\ sink = <<ESC>> \o <<"[", "5", ";", "1", "9", "6", "m">>
====
